---- MODULE Spec2Model ----
(***************************************************************************)
(* Model of superior_predictive_ability (Hansen's SPA test, closed form,   *)
(* log-log correction) from src/superior_predictive_ability.py.            *)
(*                                                                         *)
(* float64 values are modelled as fixed-point numbers with Scale units per *)
(* 1.0, extended with nan, +inf and -inf, which numpy produces instead of  *)
(* raising (0/0, x/0, sqrt and log of a negative number).                  *)
(***************************************************************************)
EXTENDS Integers, Sequences, FiniteSets

(* ------------------------------ bounds -------------------------------- *)

\* largest number of strategies (columns) of a panel
MaxN == 4
\* largest number of periods (rows) of a panel
MaxT == 4

(* --------------------- float64 as extended fixed point ---------------- *)

\* fixed-point units per 1.0
Scale == 1000

NaN  == [k |-> "nan", v |-> 0]
PInf == [k |-> "inf", v |-> 1]
NInf == [k |-> "inf", v |-> -1]
Fin(x) == [k |-> "fin", v |-> x]
\* a local variable of the loop that no iteration has assigned yet
Unset == [k |-> "unset", v |-> 0]

IsNaN(a) == a.k = "nan"
IsInf(a) == a.k = "inf"
IsFin(a) == a.k = "fin"

\* -1, 0 or 1
Sgn(x) == IF x > 0 THEN 1 ELSE IF x < 0 THEN -1 ELSE 0
Abs(x) == IF x < 0 THEN -x ELSE x

\* x / d rounded to the nearest integer (d # 0)
RoundDiv(x, d) == Sgn(x) * Sgn(d) * ((2 * Abs(x) + Abs(d)) \div (2 * Abs(d)))

RECURSIVE IsqrtBetween(_, _, _)
IsqrtBetween(x, lo, hi) ==
    IF lo >= hi THEN lo
    ELSE LET mid == (lo + hi + 1) \div 2
         IN  IF mid * mid <= x THEN IsqrtBetween(x, mid, hi)
             ELSE IsqrtBetween(x, lo, mid - 1)

\* the integer nearest to the square root of x >= 0
Isqrt(x) ==
    LET r == IsqrtBetween(x, 0, 46340)
    IN  IF x - r * r > r THEN r + 1 ELSE r

\* Python int -> float
FromInt(x) == Fin(x * Scale)

FNeg(a) == IF IsNaN(a) THEN NaN ELSE [k |-> a.k, v |-> -a.v]

FAdd(a, b) ==
    IF IsNaN(a) \/ IsNaN(b) THEN NaN
    ELSE IF IsInf(a) /\ IsInf(b) THEN (IF a.v = b.v THEN a ELSE NaN)
    ELSE IF IsInf(a) THEN a
    ELSE IF IsInf(b) THEN b
    ELSE Fin(a.v + b.v)

FSub(a, b) == FAdd(a, FNeg(b))

FMul(a, b) ==
    IF IsNaN(a) \/ IsNaN(b) THEN NaN
    ELSE IF IsInf(a) \/ IsInf(b)
         THEN (IF a.v = 0 \/ b.v = 0 THEN NaN
               ELSE IF Sgn(a.v) = Sgn(b.v) THEN PInf ELSE NInf)
    ELSE Fin(RoundDiv(a.v * b.v, Scale))

\* numpy float division: x/0 is +-inf, 0/0 is nan, nothing is raised
FDiv(a, b) ==
    IF IsNaN(a) \/ IsNaN(b) THEN NaN
    ELSE IF IsInf(a) /\ IsInf(b) THEN NaN
    ELSE IF IsInf(a) THEN (IF b.v < 0 THEN FNeg(a) ELSE a)
    ELSE IF IsInf(b) THEN Fin(0)
    ELSE IF b.v = 0
         THEN (IF a.v = 0 THEN NaN ELSE IF a.v > 0 THEN PInf ELSE NInf)
    ELSE Fin(RoundDiv(a.v * Scale, b.v))

\* np.sqrt: nan for a negative argument
FSqrt(a) ==
    IF IsNaN(a) THEN NaN
    ELSE IF IsInf(a) THEN (IF a.v > 0 THEN PInf ELSE NaN)
    ELSE IF a.v < 0 THEN NaN
    ELSE Fin(Isqrt(a.v * Scale))

\* a > b on floats: False when either side is nan
FGt(a, b) ==
    IF IsNaN(a) \/ IsNaN(b) THEN FALSE
    ELSE IF IsInf(a) THEN a.v > 0 /\ ~(IsInf(b) /\ b.v > 0)
    ELSE IF IsInf(b) THEN b.v < 0
    ELSE a.v > b.v

FEq(a, b) == ~IsNaN(a) /\ ~IsNaN(b) /\ a = b

\* a >= b on floats: False when either side is nan
FGe(a, b) == FGt(a, b) \/ FEq(a, b)

RECURSIVE FSum(_)
FSum(s) == IF s = <<>> THEN Fin(0) ELSE FAdd(Head(s), FSum(Tail(s)))

\* np.mean of an ndarray: sum / size, nan propagates, nan for an empty array
NpMean(s) == FDiv(FSum(s), FromInt(Len(s)))

\* np.mean of a pd.Series dispatches to Series.mean, which skips nan entries
SeriesMean(s) == NpMean(SelectSeq(s, LAMBDA x : ~IsNaN(x)))

(* ------------------------------ inputs -------------------------------- *)

\* return series a strategy may have, MaxT + 2 periods each; a panel of T
\* periods uses the first T of them
Profiles ==
    << << 3,  1,  2,  3,  3,  3>>,
       << 2,  3,  0,  0,  1,  0>>,
       <<-1, -2, -2,  3,  0,  1>>,
       << 3,  0,  1, -1,  3,  2>>,
       << 1,  2,  0, -1,  0,  1>> >>

\* the values of risk_free_rate, in the unit of the returns
RiskFreeRates == {0, 1}
\* the values of null_sharpe
NullSharpes == {Fin(0), Fin(Scale)}
\* the values of alpha: 0.05 and 0.20
Alphas == {Fin(50), Fin(200)}

\* panels of nStrat strategies over T periods; the columns are named 1..nStrat
\* and hold profiles in non-decreasing order (a panel is determined by its
\* columns up to their names)
Panels(nStrat, T) ==
    { [col \in 1..nStrat |-> SubSeq(Profiles[f[col]], 1, T)] :
        f \in { g \in [1..nStrat -> 1..Len(Profiles)] :
                  \A a, b \in 1..nStrat : a <= b => g[a] <= g[b] } }

(* ------------------------------- state -------------------------------- *)

VARIABLES
    log_returns_df,            \* the panel: column name -> sequence of returns
    risk_free_rate,            \* argument
    null_sharpe,               \* argument
    alpha,                     \* argument of the current call
    tie_break,                 \* how sort_values orders equal Sharpe ratios
    pc,                        \* "idle", "loop" (at the for statement), "done"
    sharpe_ratios,             \* column name -> Sharpe ratio
    strategies_list,           \* column names by descending Sharpe ratio
    correlation_matrix,        \* rank x rank Pearson correlations
    statistically_significant, \* the result list
    i,                         \* the loop variable: the next iteration
    subset_strategies_list,    \* subset of the last iteration run
    rho,                       \* rho of the last iteration run
    k_tilde,                   \* k_tilde of the last iteration run
    retval,                    \* what the call returned
    prev                       \* alpha and retval of the call before this one

vars == << log_returns_df, risk_free_rate, null_sharpe, alpha, tie_break, pc,
           sharpe_ratios, strategies_list, correlation_matrix,
           statistically_significant, i, subset_strategies_list, rho, k_tilde,
           retval, prev >>

\* the inputs of the call, which no statement assigns
inputs == << log_returns_df, risk_free_rate, null_sharpe, tie_break >>

\* retval before the call returns
Pending == [kind |-> "pending", list |-> <<>>]
\* return without a value (falling off the end of the function)
None == [kind |-> "None", list |-> <<>>]
\* return of a list
ListOf(s) == [kind |-> "list", list |-> s]

\* log_returns_df.shape
n == IF DOMAIN log_returns_df = {} THEN 0 ELSE Len(log_returns_df[1])
n_strategies == Len(log_returns_df)

(* ------------------- Sharpe ratios, ranking, correlation -------------- *)

RECURSIVE SumSeq(_)
SumSeq(s) == IF s = <<>> THEN 0 ELSE Head(s) + SumSeq(Tail(s))

\* sum over the periods of a[t] * b[t]
Dot(a, b) == SumSeq([t \in 1..Len(a) |-> a[t] * b[t]])

\* Len(a) times the sum of the products of the deviations from the means
\* of a and b; exact on integer returns
Dev(a, b) == Len(a) * Dot(a, b) - SumSeq(a) * SumSeq(b)

excess_returns == [col \in 1..n_strategies |->
                     [t \in 1..n |-> log_returns_df[col][t] - risk_free_rate]]

\* DataFrame.mean(axis=0)
mean_returns == [col \in 1..n_strategies |->
                   FDiv(FromInt(SumSeq(excess_returns[col])), FromInt(n))]

\* DataFrame.std(axis=0): sample standard deviation (ddof = 1), nan for n = 1
std_devs == [col \in 1..n_strategies |->
               FSqrt(FDiv(FromInt(Dev(excess_returns[col], excess_returns[col])),
                          FromInt(n * (n - 1))))]

SharpeRatios == [col \in 1..n_strategies |-> FDiv(mean_returns[col], std_devs[col])]

\* sort_values(ascending=False): larger first, nan last; equal values in the
\* order tie_break gives
Precedes(sr, x, y) ==
    \/ ~IsNaN(sr[x]) /\ IsNaN(sr[y])
    \/ FGt(sr[x], sr[y])
    \/ /\ (IsNaN(sr[x]) /\ IsNaN(sr[y])) \/ FEq(sr[x], sr[y])
       /\ IF tie_break = "forward" THEN x < y ELSE x > y

SortedIndex(sr) ==
    [r \in 1..Len(sr) |->
        CHOOSE x \in 1..Len(sr) :
            Cardinality({y \in 1..Len(sr) : Precedes(sr, y, x)}) = r - 1]

Clip(a) == IF FGt(a, Fin(Scale)) THEN Fin(Scale)
           ELSE IF FGt(Fin(-Scale), a) THEN Fin(-Scale) ELSE a

\* Pearson correlation of two columns, as np.corrcoef: covariance over the
\* product of the standard deviations, clipped to [-1, 1]; nan for a column
\* of zero variance
Pearson(a, b) ==
    Clip(FDiv(FromInt(Dev(a, b)),
              FMul(FSqrt(FromInt(Dev(a, a))), FSqrt(FromInt(Dev(b, b))))))

\* np.corrcoef(log_returns_df[order].values, rowvar=False)
Corrcoef(order) ==
    [r \in 1..Len(order) |->
        [q \in 1..Len(order) |->
            Pearson(log_returns_df[order[r]], log_returns_df[order[q]])]]

(* ------------------------------ actions ------------------------------- *)

Init ==
    /\ \E nStrat \in 1..MaxN, T \in 1..MaxT : log_returns_df \in Panels(nStrat, T)
    /\ risk_free_rate \in RiskFreeRates
    /\ null_sharpe \in NullSharpes
    /\ tie_break \in {"forward", "reverse"}
    /\ alpha \in Alphas
    /\ pc = "idle"
    /\ sharpe_ratios = <<>>
    /\ strategies_list = <<>>
    /\ correlation_matrix = <<>>
    /\ statistically_significant = <<>>
    /\ i = 0
    /\ subset_strategies_list = <<>>
    /\ rho = Unset
    /\ k_tilde = 0
    /\ retval = Pending
    /\ prev = [alpha |-> Fin(0), retval |-> Pending]

\* lines 43-54: the statements before the loop
Enter ==
    /\ pc = "idle"
    /\ \E sr \in {SharpeRatios} : \E order \in {SortedIndex(sr)} :
           /\ sharpe_ratios' = sr
           /\ strategies_list' = order
           /\ correlation_matrix' = Corrcoef(order)
    /\ statistically_significant' = <<>>
    /\ i' = 0
    /\ pc' = "loop"
    /\ UNCHANGED << inputs, alpha, subset_strategies_list, rho, k_tilde, retval, prev >>

(* ---------------------------- one iteration --------------------------- *)

\* np.log(np.log(n)) for the sample sizes of the model: -inf at 1, negative at 2
LogLog(T) ==
    CASE T = 1 -> NInf
      [] T = 2 -> Fin(-367)
      [] T = 3 -> Fin(94)
      [] T = 4 -> Fin(327)
      [] T = 5 -> Fin(476)
      [] T = 6 -> Fin(583)

\* scipy.stats.norm.ppf at the probabilities 1 - alpha / k the model reaches
NormPpf(p) ==
    CASE p.v = 800 -> Fin(842)
      [] p.v = 900 -> Fin(1282)
      [] p.v = 933 -> Fin(1501)
      [] p.v = 950 -> Fin(1645)
      [] p.v = 960 -> Fin(1751)
      [] p.v = 967 -> Fin(1834)
      [] p.v = 971 -> Fin(1902)
      [] p.v = 975 -> Fin(1960)
      [] p.v = 983 -> Fin(2128)
      [] p.v = 987 -> Fin(2241)
      [] p.v = 990 -> Fin(2326)
      [] p.v = 992 -> Fin(2394)
      [] p.v = 993 -> Fin(2450)

\* mutant: the slice starts one rank too low, strategies_list[it + 1:]
SubsetStrategiesListSkipTop(it) ==
    SubSeq(strategies_list, it + 2, Len(strategies_list))

\* strategies_list[it:]
SubsetStrategiesList(it) == SubSeq(strategies_list, it + 1, Len(strategies_list))

\* sharpe_ratios[subset_strategies_list]
SubsetSharpeRatios(subset) == [j \in 1..Len(subset) |-> sharpe_ratios[subset[j]]]

\* float(np.mean(subset_sharpe_ratios))
ZetaBar(subset_sharpe_ratios) == SeriesMean(subset_sharpe_ratios)

\* mutant: the slice keeps the diagonal, correlation_matrix[i][i:]
RhoWithDiagonal(it) ==
    NpMean(SubSeq(correlation_matrix[it + 1], it + 1, Len(correlation_matrix[it + 1])))

\* np.mean(correlation_matrix[i][i + 1:])
Rho(it) == NpMean(SubSeq(correlation_matrix[it + 1], it + 2,
                         Len(correlation_matrix[it + 1])))

\* c = 1.0 / np.sqrt(1.0 + (subset_n_strategies - 1.0) * rho)
CFactor(subset_n_strategies, r) ==
    FDiv(Fin(Scale),
         FSqrt(FAdd(Fin(Scale), FMul(FromInt(subset_n_strategies - 1), r))))

\* xi = c * zeta_bar + (1.0 / np.sqrt(1.0 - rho)) * (sharpe - zeta_bar)
Xi(subset_sharpe_ratios, zeta_bar, c, r) ==
    LET term1 == FMul(c, zeta_bar)
        factor == FDiv(Fin(Scale), FSqrt(FSub(Fin(Scale), r)))
    IN  [j \in 1..Len(subset_sharpe_ratios) |->
            FAdd(term1, FMul(factor, FSub(subset_sharpe_ratios[j], zeta_bar)))]

\* c * null_sharpe - np.sqrt(2 * np.log(np.log(n)) / n)
InitialThreshold(c) ==
    FSub(FMul(c, null_sharpe),
         FSqrt(FDiv(FMul(FromInt(2), LogLog(n)), FromInt(n))))

\* xi[xi > initial_threshold].index.to_list()
StrategiesPassedList(subset, xi, initial_threshold) ==
    LET idx == SelectSeq([j \in 1..Len(subset) |-> j],
                         LAMBDA j : FGt(xi[j], initial_threshold))
    IN  [q \in 1..Len(idx) |-> subset[idx[q]]]

\* Python's max over the values: the first one, replaced by each later value
\* that compares greater (a nan never does, and is never replaced)
RECURSIVE PyMaxFrom(_, _)
PyMaxFrom(cur, rest) ==
    IF rest = <<>> THEN cur
    ELSE PyMaxFrom(IF FGt(Head(rest), cur) THEN Head(rest) ELSE cur, Tail(rest))

PyMax(s) == PyMaxFrom(Head(s), Tail(s))

\* mutant: the lower tail, norm.ppf(alpha / k_tilde) = -norm.ppf(1 - alpha / k_tilde)
CriticalLowerTail(a, k) == FNeg(NormPpf(FSub(Fin(Scale), FDiv(a, FromInt(k)))))

\* norm.ppf(1.0 - alpha / k_tilde)
Critical(a, k) == NormPpf(FSub(Fin(Scale), FDiv(a, FromInt(k))))

\* max(xi) - c * null_sharpe >= norm.ppf(1.0 - alpha / k_tilde)
BonferroniPasses(xi, c, a, k) ==
    FGe(FSub(PyMax(xi), FMul(c, null_sharpe)), Critical(a, k))

\* lines 57-79: what iteration `it` computes under significance level a
Iteration(it, a) ==
    LET subset == SubsetStrategiesList(it)
        ssr == SubsetSharpeRatios(subset)
        zeta_bar == ZetaBar(ssr)
        r == Rho(it)
        c == CFactor(Len(subset), r)
        xi == Xi(ssr, zeta_bar, c, r)
        threshold == InitialThreshold(c)
        passed == StrategiesPassedList(subset, xi, threshold)
        k == Len(passed)
    IN  [subset |-> subset, rho |-> r, c |-> c, xi |-> xi,
         threshold |-> threshold, passed |-> passed, k_tilde |-> k,
         passes |-> IF k = 0 THEN FALSE ELSE BonferroniPasses(xi, c, a, k)]

\* mutant: range(n_strategies - 1)
InRangeOneMore(it) == it < n_strategies - 1

\* the for statement has an iteration left: it in range(n_strategies - 2)
InRange(it) == it < n_strategies - 2

\* lines 75-77: no statistic above the threshold, return
IterNonePassed ==
    /\ pc = "loop" /\ InRange(i)
    /\ \E it \in {Iteration(i, alpha)} :
           /\ it.k_tilde = 0
           /\ subset_strategies_list' = it.subset
           /\ rho' = it.rho
           /\ k_tilde' = it.k_tilde
    /\ retval' = ListOf(statistically_significant)
    /\ pc' = "done"
    /\ UNCHANGED << inputs, alpha, sharpe_ratios, strategies_list,
                    correlation_matrix, statistically_significant, i, prev >>

\* mutant: accepts every strategy above the threshold,
\* statistically_significant.extend(strategies_passed_list)
IterAcceptAllPassed ==
    /\ pc = "loop" /\ InRange(i)
    /\ \E it \in {Iteration(i, alpha)} :
           /\ it.k_tilde # 0
           /\ it.passes
           /\ subset_strategies_list' = it.subset
           /\ rho' = it.rho
           /\ k_tilde' = it.k_tilde
           /\ statistically_significant' = statistically_significant \o it.passed
    /\ i' = i + 1
    /\ UNCHANGED << inputs, alpha, pc, sharpe_ratios, strategies_list,
                    correlation_matrix, retval, prev >>

\* lines 79-81: the test passes, accept the top of the subset and go on
IterAccept ==
    /\ pc = "loop" /\ InRange(i)
    /\ \E it \in {Iteration(i, alpha)} :
           /\ it.k_tilde # 0
           /\ it.passes
           /\ subset_strategies_list' = it.subset
           /\ rho' = it.rho
           /\ k_tilde' = it.k_tilde
           /\ statistically_significant' =
                 Append(statistically_significant, it.subset[1])
    /\ i' = i + 1
    /\ UNCHANGED << inputs, alpha, pc, sharpe_ratios, strategies_list,
                    correlation_matrix, retval, prev >>

\* mutant: a failed test skips the candidate and goes on to the next subset
IterRejectSkips ==
    /\ pc = "loop" /\ InRange(i)
    /\ \E it \in {Iteration(i, alpha)} :
           /\ it.k_tilde # 0
           /\ ~it.passes
           /\ subset_strategies_list' = it.subset
           /\ rho' = it.rho
           /\ k_tilde' = it.k_tilde
    /\ i' = i + 1
    /\ UNCHANGED << inputs, alpha, pc, sharpe_ratios, strategies_list,
                    correlation_matrix, statistically_significant, retval, prev >>

\* lines 82-85: the test fails, return
IterReject ==
    /\ pc = "loop" /\ InRange(i)
    /\ \E it \in {Iteration(i, alpha)} :
           /\ it.k_tilde # 0
           /\ ~it.passes
           /\ subset_strategies_list' = it.subset
           /\ rho' = it.rho
           /\ k_tilde' = it.k_tilde
    /\ retval' = ListOf(statistically_significant)
    /\ pc' = "done"
    /\ UNCHANGED << inputs, alpha, sharpe_ratios, strategies_list,
                    correlation_matrix, statistically_significant, i, prev >>

\* line 55 with range(n_strategies - 2) exhausted: the function body ends
\* with no return statement
LoopEnd ==
    /\ pc = "loop" /\ ~InRange(i)
    /\ retval' = None
    /\ pc' = "done"
    /\ UNCHANGED << inputs, alpha, sharpe_ratios, strategies_list,
                    correlation_matrix, statistically_significant, i,
                    subset_strategies_list, rho, k_tilde, prev >>

\* the caller calls again on the same panel, risk_free_rate and null_sharpe,
\* with a larger significance level a
CallAgain(a) ==
    /\ pc = "done"
    /\ FGt(a, alpha)
    /\ prev' = [alpha |-> alpha, retval |-> retval]
    /\ alpha' = a
    /\ pc' = "idle"
    /\ sharpe_ratios' = <<>>
    /\ strategies_list' = <<>>
    /\ correlation_matrix' = <<>>
    /\ statistically_significant' = <<>>
    /\ i' = 0
    /\ subset_strategies_list' = <<>>
    /\ rho' = Unset
    /\ k_tilde' = 0
    /\ retval' = Pending
    /\ UNCHANGED inputs

Next ==
    \/ Enter
    \/ IterNonePassed
    \/ IterAccept
    \/ IterReject
    \/ LoopEnd
    \/ \E a \in Alphas : CallAgain(a)

Spec == Init /\ [][Next]_vars

(* ------------------------------ claims -------------------------------- *)

IsPrefix(s, t) == Len(s) <= Len(t) /\ s = SubSeq(t, 1, Len(s))

\* order lists every column once, by descending Sharpe ratio, nan last
IsRanking(order) ==
    /\ Len(order) = n_strategies
    /\ \A col \in 1..n_strategies : \E r \in 1..Len(order) : order[r] = col
    /\ \A a, b \in 1..Len(order) :
          a < b => /\ ~FGt(sharpe_ratios[order[b]], sharpe_ratios[order[a]])
                   /\ IsNaN(sharpe_ratios[order[a]]) => IsNaN(sharpe_ratios[order[b]])

\* the iteration whose locals the state holds (one has run: rho # Unset)
LastIteration == IF pc = "done" /\ retval.kind = "list" THEN i ELSE i - 1

\* fewer than 2 strategies, or ln(ln(T)) undefined or negative (T <= e)
Malformed == n_strategies < 2 \/ n <= 2

\* N >= 3, T > e, no column of zero variance, rho < 1 in every subset the
\* loop can test
ValidPanel ==
    /\ n_strategies >= 3
    /\ n >= 3
    /\ \A col \in 1..n_strategies : FGt(std_devs[col], Fin(0))
    /\ \A it \in 0..(n_strategies - 3) : FGt(Fin(Scale), Rho(it))

\* a valid panel away from the singular points of the transform: rho below
\* 0.99 and 1 + (m - 1) * rho above 0.01 in every subset the loop can test
WellConditioned ==
    /\ pc \in {"loop", "done"}
    /\ ValidPanel
    /\ \A it \in 0..(n_strategies - 3) :
          /\ FGt(Fin(990), Rho(it))
          /\ FGt(FAdd(Fin(Scale), FMul(FromInt(n_strategies - it - 1), Rho(it))), Fin(10))

AllSharpeAtMostNull ==
    \A col \in 1..n_strategies : FGe(null_sharpe, sharpe_ratios[col])

\* the call is past its first iteration
FirstIterationRan == pc \in {"loop", "done"} /\ rho # Unset

\* C1: every call with N >= 2 strategies ends by returning the accumulated
\* result list, whichever way the loop stops
C1_ReturnsResultList ==
    (pc = "done" /\ n_strategies >= 2) => retval = ListOf(statistically_significant)

\* C2: with exactly two strategies no iteration runs and the empty list is
\* returned
C2_TwoStrategiesEmptyList ==
    (pc = "done" /\ n_strategies = 2) => (rho = Unset /\ retval = ListOf(<<>>))

\* C3: the result list is always the first Len(result) entries of the
\* ranking, and an iteration only ever appends the next-ranked strategy to it
C3_MonotonicAcceptance ==
    /\ [](pc \in {"loop", "done"} =>
            /\ IsRanking(strategies_list)
            /\ IsPrefix(statistically_significant, strategies_list))
    /\ [][pc = "loop" =>
            /\ strategies_list' = strategies_list
            /\ IsPrefix(statistically_significant, statistically_significant')
            /\ Len(statistically_significant') <= Len(statistically_significant) + 1]_vars

\* two strategies were accepted, one after the other
C3_Witness == WellConditioned /\ pc = "loop" /\ Len(statistically_significant) = 2

\* C4: on the same panel, risk_free_rate and null_sharpe, every strategy in
\* the output of a run is in the output of the next run at a larger alpha,
\* at the same place
C4_ThresholdSensitivity ==
    (pc = "done" /\ prev.retval.kind = "list" /\ FGt(alpha, prev.alpha)) =>
        \A j \in 1..Len(prev.retval.list) :
            /\ retval.kind = "list"
            /\ j <= Len(retval.list)
            /\ retval.list[j] = prev.retval.list[j]

\* C5: on a malformed panel no iteration runs and the call does not return
\* normally
C5_MalformedFailsFast == Malformed => (rho = Unset /\ pc # "done")

\* C6 as stated: on a valid panel whose Sharpe ratios are all <= null_sharpe,
\* at alpha = 0.05, the first iteration does not accept and the empty list
\* is returned
C6_EmptyResultValidity ==
    (FirstIterationRan /\ ValidPanel /\ AllSharpeAtMostNull /\ alpha = Fin(50)) =>
        (pc = "done" /\ retval = ListOf(<<>>))

\* C6 amended: the same, for panels whose first subset has mean correlation
\* rho <= 0
C6_EmptyResultNonPositiveRho ==
    (FirstIterationRan /\ ValidPanel /\ AllSharpeAtMostNull /\ alpha = Fin(50)
       /\ FGe(Fin(0), Rho(0))) =>
        (pc = "done" /\ retval = ListOf(<<>>))

\* a valid panel with all Sharpe ratios <= null_sharpe and rho <= 0, some
\* Sharpe ratio above the others, returned the empty list
C6_Witness ==
    /\ FirstIterationRan /\ WellConditioned /\ AllSharpeAtMostNull /\ alpha = Fin(50)
    /\ FGe(Fin(0), Rho(0))
    /\ FGt(sharpe_ratios[strategies_list[1]], sharpe_ratios[strategies_list[n_strategies]])
    /\ retval = ListOf(<<>>)

\* C7: an iteration that finds k_tilde = 0 or fails the Bonferroni test ends
\* the call: its candidate is not appended, the strategies accepted so far
\* are returned, and no later iteration runs
C7_StopAtFirstFailure ==
    /\ [][(pc = "loop" /\ InRange(i) /\ ~Iteration(i, alpha).passes) =>
            /\ pc' = "done"
            /\ statistically_significant' = statistically_significant
            /\ retval' = ListOf(SubSeq(strategies_list, 1, i))
            /\ i' = i]_vars
    /\ [][pc = "done" => (pc' = "idle" /\ prev'.retval = retval)]_vars

\* the call stopped at a failed iteration after an acceptance, although the
\* next smaller subset passes the test
C7_Witness ==
    /\ WellConditioned /\ pc = "done" /\ retval.kind = "list"
    /\ InRange(i + 1) /\ Iteration(i + 1, alpha).passes

\* C8 as stated: at most N - 2 iterations, iteration i tests ranking[i:], and
\* a run in which every iteration accepts tests a subset of size 2 last
C8_SmallestSubsetTwo ==
    /\ i <= n_strategies - 2 \/ i = 0
    /\ rho # Unset =>
          subset_strategies_list = SubsetStrategiesList(LastIteration)
    /\ (pc = "done" /\ retval.kind = "None" /\ n_strategies >= 3) =>
          Len(subset_strategies_list) = 2

\* C8 amended: at most N - 2 iterations, iteration i tests ranking[i:] of size
\* N - i, and the smallest subset ever tested has size 3: a run in which every
\* iteration accepts tests a subset of size 3 last
C8_SmallestSubsetThree ==
    /\ i <= n_strategies - 2 \/ i = 0
    /\ rho # Unset =>
          /\ subset_strategies_list = SubSeq(strategies_list, LastIteration + 1, n_strategies)
          /\ Len(subset_strategies_list) = n_strategies - LastIteration
          /\ Len(subset_strategies_list) >= 3
    /\ (pc = "done" /\ retval.kind = "None" /\ n_strategies >= 3) =>
          Len(subset_strategies_list) = 3

\* every iteration of a run on 4 strategies accepted
C8_Witness ==
    WellConditioned /\ pc = "done" /\ retval.kind = "None" /\ n_strategies = 4 /\ i = 2

\* C9: the loop starts with the correlation matrix of the panel's columns in
\* ranked order, no iteration changes it, and the rho of iteration i is the
\* mean of its entries [i, j] for j = i+1 .. N-1
C9_FrozenCorrelationMatrix ==
    /\ [](/\ (pc = "loop" /\ rho = Unset) =>
                correlation_matrix =
                    [r \in 1..n_strategies |-> [q \in 1..n_strategies |->
                        Pearson(log_returns_df[strategies_list[r]],
                                log_returns_df[strategies_list[q]])]]
          /\ rho # Unset =>
                rho = NpMean([j \in 1..(n_strategies - LastIteration - 1) |->
                        Pearson(log_returns_df[strategies_list[LastIteration + 1]],
                                log_returns_df[strategies_list[LastIteration + 1 + j]])]))
    /\ [][pc = "loop" => correlation_matrix' = correlation_matrix]_vars

\* the second iteration ran, on a panel whose correlations differ
C9_Witness ==
    /\ WellConditioned /\ rho # Unset /\ LastIteration = 1
    /\ correlation_matrix[1][2] # correlation_matrix[2][3]
    /\ correlation_matrix[2][3] # correlation_matrix[2][4]

\* C10: with N >= 2 strategies the result list never has more than N - 2
\* entries, the two lowest-ranked strategies are never in it, and an iteration
\* appends at most one strategy, ranking[i]
C10_AcceptanceCap ==
    /\ [](/\ n_strategies >= 2 => Len(statistically_significant) <= n_strategies - 2
          /\ \A r \in 1..Len(strategies_list) :
                r >= n_strategies - 1 =>
                    \A j \in 1..Len(statistically_significant) :
                        statistically_significant[j] # strategies_list[r]
          /\ retval.kind = "list" => retval.list = statistically_significant)
    /\ [][(pc = "loop" /\ statistically_significant' # statistically_significant) =>
            statistically_significant' =
                Append(statistically_significant, strategies_list[i + 1])]_vars

\* a run on 4 strategies accepted as many as the loop lets it
C10_Witness ==
    WellConditioned /\ n_strategies = 4 /\ Len(statistically_significant) = 2

====
